---- MODULE Spec2Model ----
(***************************************************************************)
(* Model of oauth_script.py: a line scanner that finds the first otpauth   *)
(* record whose label contains a search text, asks the TOTP generator for  *)
(* the current code and hands it to a chain of clipboard backends.         *)
(*                                                                         *)
(* Text is modelled character by character: a string is a sequence of      *)
(* one-character strings, so that the regular expression, the case         *)
(* folding, the splitting and the integer conversion are computed as the   *)
(* code computes them.                                                     *)
(***************************************************************************)
EXTENDS Naturals, Integers, Sequences, FiniteSets, TLC

VARIABLES
    file,         \* the lines of the opened file, in order (text)
    shape,        \* how each line of file was composed (input description only)
    search_text,  \* the search_text argument
    facts,        \* which filters each line of file passes (input description only)
    pc,           \* position in search_and_generate_oauth
    pos,          \* number of lines the for loop has consumed
    data,         \* result of the last parse_first_match call
    parseLog,     \* line numbers parse_first_match was called on, in order
    genLog,       \* descriptors handed to pyotp.TOTP, in order
    code,         \* value of totp.now(), NoCode before
    probed,       \* clipboard backends whose availability was tested, in order
    tried,        \* clipboard backends that were run, with their outcome
    copied,       \* return value of copy_to_clipboard
    clipboard,    \* text a backend put on the clipboard, NoCode if none
    stdout,       \* what was printed, in order
    result,       \* outcome of search_and_generate_oauth
    err           \* exception that left search_and_generate_oauth, "" if none

vars == <<file, shape, search_text, facts, pc, pos, data, parseLog, genLog, code,
          probed, tried, copied, clipboard, stdout, result, err>>

----------------------------------------------------------------------------
(* Bounds of the model.                                                    *)

\* most lines in a scanned file
MaxLines == 2
\* most key=value pairs in the query string of an enumerated line
MaxPairs == 2

----------------------------------------------------------------------------
(* Characters and strings.                                                 *)

UpperChars == <<"A","B","C","D","E","F","G","H","I","J","K","L","M",
                "N","O","P","Q","R","S","T","U","V","W","X","Y","Z">>
LowerChars == <<"a","b","c","d","e","f","g","h","i","j","k","l","m",
                "n","o","p","q","r","s","t","u","v","w","x","y","z">>
DigitChars == <<"0","1","2","3","4","5","6","7","8","9">>

\* the characters \s matches among those a line can hold
WhiteSpace == {" ", "\t", "\n", "\r"}

Min(S) == CHOOSE m \in S : \A n \in S : m <= n

IndexIn(chars, c) == CHOOSE i \in 1..Len(chars) : chars[i] = c
InChars(chars, c) == \E i \in 1..Len(chars) : chars[i] = c

\* str.lower() on one character
LowerChar(c) == IF InChars(UpperChars, c) THEN LowerChars[IndexIn(UpperChars, c)] ELSE c
\* str.upper() on one character
UpperChar(c) == IF InChars(LowerChars, c) THEN UpperChars[IndexIn(LowerChars, c)] ELSE c

\* str.lower()
Lower(s) == [i \in 1..Len(s) |-> LowerChar(s[i])]
Upper(s) == [i \in 1..Len(s) |-> UpperChar(s[i])]

\* the Python test  a in b  on strings
Contains(b, a) ==
    \E i \in 1..(Len(b) + 1) :
        /\ i + Len(a) - 1 <= Len(b)
        /\ \A k \in 1..Len(a) : b[i + k - 1] = a[k]

\* first index >= j of s holding a character of stop, Len(s)+1 if none
FirstIdx(s, j, stop) ==
    LET hits == {k \in j..Len(s) : s[k] \in stop}
    IN  IF hits = {} THEN Len(s) + 1 ELSE Min(hits)

----------------------------------------------------------------------------
(* parse_first_match: the regular expression.                              *)
(*   re.search(r"otpauth://totp/([^?]+)\?([^\s]+)", line, re.IGNORECASE)   *)

Marker == <<"o","t","p","a","u","t","h",":","/","/","t","o","t","p","/">>

\* the literal otpauth://totp/ matches at index i of line, ignoring case
MarkerAt(line, i) ==
    /\ i + Len(Marker) - 1 <= Len(line)
    /\ \A k \in 1..Len(Marker) : LowerChar(line[i + k - 1]) = Marker[k]

\* LabelStop of a class [^?\s]
LabelStopAtSpace == {"?"} \cup WhiteSpace

\* the characters the class [^?] of group 1 refuses
LabelStop == {"?"}

\* the characters the class [^\s] of group 2 refuses
QueryStop == WhiteSpace

\* The whole pattern tried at index i. Both groups are greedy and each is
\* followed by a character (or the end) outside its class, so the match at
\* i, if any, is unique: group 1 runs to the first character of LabelStop,
\* which has to be the '?', and group 2 to the first character of QueryStop.
MatchAt(line, i) ==
    LET j == i + Len(Marker)
        q == FirstIdx(line, j, LabelStop)
        e == FirstIdx(line, q + 1, QueryStop)
    IN  IF /\ MarkerAt(line, i)
           /\ q > j
           /\ q <= Len(line)
           /\ line[q] = "?"
           /\ e > q + 1
        THEN [found |-> TRUE,
              label |-> SubSeq(line, j, q - 1),
              query |-> SubSeq(line, q + 1, e - 1)]
        ELSE [found |-> FALSE]

\* re.search: the match at the leftmost index that has one
re_search(line) ==
    LET hits == {i \in 1..Len(line) : MatchAt(line, i).found}
    IN  IF hits = {} THEN [found |-> FALSE] ELSE MatchAt(line, Min(hits))

\* LabelMatches without the case folding
LabelMatchesExactCase(label, needle) == Contains(label, needle)

\* needle.lower() in label.lower()
LabelMatches(label, needle) == Contains(Lower(label), Lower(needle))

----------------------------------------------------------------------------
(* parse_first_match: the query string.                                    *)

\* str.split(sep): the pieces between the separators, empty ones included
RECURSIVE Split(_, _)
Split(s, sep) ==
    LET k == FirstIdx(s, 1, {sep})
    IN  IF k > Len(s)
        THEN <<s>>
        ELSE <<SubSeq(s, 1, k - 1)>> \o Split(SubSeq(s, k + 1, Len(s)), sep)

\* "=" in kv
HasEq(kv) == FirstIdx(kv, 1, {"="}) <= Len(kv)

\* kv.split("=", 1): the text before the first '=' and all the text after it
SplitOnce(kv) ==
    LET k == FirstIdx(kv, 1, {"="})
    IN  <<SubSeq(kv, 1, k - 1), SubSeq(kv, k + 1, Len(kv))>>

\* params = {}
EmptyParams == [k \in {} |-> <<>>]

\* Put that keeps the value a key already has
PutIfAbsent(params, k, v) ==
    [x \in (DOMAIN params) \cup {k} |-> IF x \in DOMAIN params THEN params[x] ELSE v]

\* params[k] = v
Put(params, k, v) ==
    [x \in (DOMAIN params) \cup {k} |-> IF x = k THEN v ELSE params[x]]

\* params after the loop over query.split("&") has handled the first n pairs
RECURSIVE ParamsOf(_, _)
ParamsOf(pairs, n) ==
    IF n = 0
    THEN EmptyParams
    ELSE LET before == ParamsOf(pairs, n - 1)
             kv == pairs[n]
         IN  IF HasEq(kv)
             THEN Put(before, Lower(SplitOnce(kv)[1]), SplitOnce(kv)[2])
             ELSE before

KeySecret == <<"s","e","c","r","e","t">>
KeyDigits == <<"d","i","g","i","t","s">>

\* the default of params.get("digits", 6)
DefaultDigits == 6

\* decimal value of a sequence of digit characters, underscores skipped
RECURSIVE DecimalValue(_, _)
DecimalValue(s, n) ==
    IF n = 0 THEN 0
    ELSE IF s[n] = "_" THEN DecimalValue(s, n - 1)
    ELSE 10 * DecimalValue(s, n - 1) + (IndexIn(DigitChars, s[n]) - 1)

\* int(s) for a string s without white space: an optional sign, then digits,
\* single underscores allowed between digits; anything else is a ValueError
PyInt(s) ==
    LET signed == Len(s) >= 1 /\ s[1] \in {"+", "-"}
        body == IF signed THEN SubSeq(s, 2, Len(s)) ELSE s
        wellFormed ==
            /\ Len(body) >= 1
            /\ \A i \in 1..Len(body) :
                  \/ InChars(DigitChars, body[i])
                  \/ /\ body[i] = "_"
                     /\ i > 1 /\ i < Len(body)
                     /\ InChars(DigitChars, body[i - 1])
                     /\ InChars(DigitChars, body[i + 1])
        magnitude == DecimalValue(body, Len(body))
    IN  IF ~wellFormed
        THEN [ok |-> FALSE]
        ELSE [ok |-> TRUE,
              val |-> IF signed /\ s[1] = "-" THEN 0 - magnitude ELSE magnitude]

\* DigitsOf with a non-integer value replaced by the default
DigitsOrDefault(params) ==
    IF KeyDigits \in DOMAIN params /\ PyInt(params[KeyDigits]).ok
    THEN PyInt(params[KeyDigits])
    ELSE [ok |-> TRUE, val |-> DefaultDigits]

\* int(params.get("digits", 6))
DigitsOf(params) ==
    IF KeyDigits \in DOMAIN params
    THEN PyInt(params[KeyDigits])
    ELSE [ok |-> TRUE, val |-> DefaultDigits]

\* the value None
None == [kind |-> "None"]

\* NoSecret as params["secret"] would give it: a KeyError
NoSecretRaises == [kind |-> "KeyError"]

\* what parse_first_match gives for a pattern match whose params lack a
\* secret or hold an empty one:  if not secret: return None
NoSecret == None

\* parse_first_match(line, needle): None, a dict, or the ValueError of int()
parse_first_match(line, needle) ==
    LET m == re_search(line)
    IN  IF ~m.found THEN None
        ELSE IF ~LabelMatches(m.label, needle) THEN None
        ELSE LET pairs == Split(m.query, "&")
                 params == ParamsOf(pairs, Len(pairs))
             IN  IF KeySecret \notin DOMAIN params \/ params[KeySecret] = <<>>
                 THEN NoSecret
                 ELSE IF ~DigitsOf(params).ok
                 THEN [kind |-> "ValueError"]
                 ELSE [kind |-> "dict",
                       label |-> m.label,
                       secret |-> params[KeySecret],
                       digits |-> DigitsOf(params).val]

----------------------------------------------------------------------------
(* The inputs: lines composed of a prefix, a scheme marker, a label, '?',  *)
(* key=value pairs joined by '&', and the rest of the line.                *)

Pair(k, eq, v) == [k |-> k, eq |-> eq, v |-> v]

RenderPair(p) == IF p.eq THEN p.k \o <<"=">> \o p.v ELSE p.k

RECURSIVE JoinPairs(_, _)
JoinPairs(pairs, n) ==
    IF n = 0 THEN <<>>
    ELSE IF n = 1 THEN RenderPair(pairs[1])
    ELSE JoinPairs(pairs, n - 1) \o <<"&">> \o RenderPair(pairs[n])

Sh(pre, marker, label, pairs, post) ==
    [pre |-> pre, marker |-> marker, label |-> label, pairs |-> pairs, post |-> post]

\* the text of a line composed as sh says
Render(sh) ==
    sh.pre \o sh.marker \o sh.label \o <<"?">>
        \o JoinPairs(sh.pairs, Len(sh.pairs)) \o sh.post

MixedMarker == [i \in 1..Len(Marker) |->
                   IF i \in {1, 4, 11} THEN UpperChar(Marker[i]) ELSE Marker[i]]

Eol == <<"\n">>

PSecretAb   == Pair(KeySecret, TRUE, <<"A","b">>)
PSecretCd   == Pair(Upper(KeySecret), TRUE, <<"C","d">>)
PSecretBare == Pair(KeySecret, FALSE, <<>>)
PSecretNone == Pair(KeySecret, TRUE, <<>>)
PSecretEq   == Pair(KeySecret, TRUE, <<"A","=","b">>)
PDigits8    == Pair(KeyDigits, TRUE, <<"8">>)
PDigits0    == Pair(Upper(KeyDigits), TRUE, <<"0">>)
PDigitsNeg  == Pair(<<"D","i","g","i","t","s">>, TRUE, <<"-","1">>)
PDigits11   == Pair(KeyDigits, TRUE, <<"1","1">>)
PDigitsBad  == Pair(KeyDigits, TRUE, <<"a","b","c">>)
PIssuer     == Pair(<<"i","s","s","u","e","r">>, TRUE, <<"Z">>)

PairSet == {PSecretAb, PSecretCd, PSecretBare, PSecretEq,
            PDigits8, PDigits0, PDigitsBad, PIssuer}

\* every query string of at most MaxPairs pairs
Queries == UNION {[1..n -> PairSet] : n \in 0..MaxPairs}

\* the query strings every combination of prefix, marker and label is tried with
BaseQueries == {<<PSecretAb, PDigits8>>, <<PSecretCd>>, <<PDigits11, PSecretAb>>}

\* longer query strings: a repeated digits key, an emptied secret, a sign
ExtraQueries == {<<PSecretAb, PDigits8, PDigits0>>,
                 <<PDigits0, PSecretCd, PIssuer, PDigits8>>,
                 <<PSecretAb, PSecretNone>>,
                 <<PSecretNone, PIssuer, PSecretAb, PDigitsNeg>>,
                 <<PSecretCd, PDigits8, PDigitsBad>>}

LabelWk == <<"W","k">>

Pres    == {<<>>, <<"x"," ">>, Marker \o <<"A"," ">>}
Markers == {Marker, Upper(Marker), MixedMarker, <<>>}
Labels  == {LabelWk, <<"w","K">>, <<"W"," ","k">>, <<"b">>, <<>>}
Posts   == {Eol, <<" ","&">> \o KeySecret \o <<"=","Z","\n">>}

\* the lines parse_first_match is examined on, one at a time
ParseShapes ==
    {Sh(<<>>, Marker, LabelWk, q, Eol) : q \in Queries \cup ExtraQueries}
    \cup {Sh(sh[1], sh[2], sh[3], sh[4], sh[5]) :
             sh \in Pres \X Markers \X Labels \X BaseQueries \X Posts}

\* the lines a scanned file is made of
ScanShapes ==
    { Sh(<<>>, Marker, LabelWk, <<PSecretAb, PDigits8>>, Eol),
      Sh(<<>>, Upper(Marker), Upper(LabelWk), <<PSecretCd>>, Eol),
      Sh(<<>>, Marker, LabelWk, <<PDigits8, PIssuer>>, Eol),
      Sh(<<>>, Marker, LabelWk, <<PSecretAb, PDigitsBad>>, Eol),
      Sh(<<>>, Marker, LabelWk, <<PSecretAb, PDigits0>>, Eol),
      Sh(<<"#"," ">>, Marker, <<"b">>, <<PSecretCd>>, Eol),
      Sh(<<"#"," ","x">>, <<>>, <<>>, <<>>, Eol) }

ScanFiles == UNION {[1..n -> ScanShapes] : n \in 0..MaxLines}

Needles == {<<"w","k">>, <<"W","K">>, <<"k">>}

\* the values totp.now() can give (opaque: pyotp computes them)
Codes == {"code_a", "code_b"}
NoCode == "none"

----------------------------------------------------------------------------
(* What the filters say of a line, for the statement of the properties.    *)

\* hit: line matches the pattern and its label contains needle;
\* secret: the secret of its query string, <<>> if it has none or an empty one;
\* bad: its query string carries a digits value that is not an integer
LineFacts(line, needle) ==
    LET m == re_search(line)
    IN  IF ~m.found \/ ~LabelMatches(m.label, needle)
        THEN [hit |-> FALSE, secret |-> <<>>, bad |-> FALSE]
        ELSE LET pairs == Split(m.query, "&")
                 params == ParamsOf(pairs, Len(pairs))
             IN  [hit |-> TRUE,
                  secret |-> IF KeySecret \in DOMAIN params
                             THEN params[KeySecret] ELSE <<>>,
                  bad |-> /\ KeyDigits \in DOMAIN params
                          /\ ~PyInt(params[KeyDigits]).ok]

----------------------------------------------------------------------------
(* The state machine of search_and_generate_oauth.                         *)

InitWith(shapes) ==
    /\ shape \in shapes
    /\ file = [i \in DOMAIN shape |-> Render(shape[i])]
    /\ search_text \in Needles
    /\ facts = [i \in DOMAIN file |-> LineFacts(file[i], search_text)]
    /\ pc = "loop"
    /\ pos = 0
    /\ data = None
    /\ parseLog = <<>>
    /\ genLog = <<>>
    /\ code = NoCode
    /\ probed = <<>>
    /\ tried = <<>>
    /\ copied = FALSE
    /\ clipboard = NoCode
    /\ stdout = <<>>
    /\ result = "none"
    /\ err = ""

\* a file of up to MaxLines lines has been opened
Init == InitWith(ScanFiles)

\* a file of one line, taken from the larger set of lines, has been opened
InitParse == InitWith({<<sh>> : sh \in ParseShapes})

clipVars == <<probed, tried, copied, clipboard>>
inputVars == <<file, shape, search_text, facts>>

\* print_colored_box(success)
print_colored_box(success) ==
    [kind |-> "box", color |-> IF success THEN "GREEN" ELSE "RED"]

\* one turn of  for raw in f:  the next line is read and parsed; no dict
\* continues the loop, a dict goes on to the generator, an exception leaves
Iterate ==
    /\ pc = "loop"
    /\ pos < Len(file)
    /\ LET r == parse_first_match(file[pos + 1], search_text)
       IN  /\ pos' = pos + 1
           /\ parseLog' = Append(parseLog, pos + 1)
           /\ data' = r
           /\ pc' = IF r.kind = "dict" THEN "generate"
                    ELSE IF r.kind = "None" THEN "loop"
                    ELSE "error"
           /\ err' = IF r.kind \in {"dict", "None"} THEN err ELSE r.kind
    /\ UNCHANGED <<inputVars, clipVars, genLog, code, stdout, result>>

\* NotFound returning True
NotFoundReturnsTrue ==
    /\ pc = "loop"
    /\ pos = Len(file)
    /\ stdout' = Append(stdout, print_colored_box(FALSE))
    /\ result' = "True"
    /\ pc' = "done"
    /\ UNCHANGED <<inputVars, clipVars, pos, data, parseLog, genLog, code, err>>

\* the loop ran out of lines: print_colored_box(False); return False
NotFound ==
    /\ pc = "loop"
    /\ pos = Len(file)
    /\ stdout' = Append(stdout, print_colored_box(FALSE))
    /\ result' = "False"
    /\ pc' = "done"
    /\ UNCHANGED <<inputVars, clipVars, pos, data, parseLog, genLog, code, err>>

\* pyotp.TOTP(secret, digits=digits).now() gives a code
GenerateCode ==
    /\ pc = "generate"
    /\ genLog' = Append(genLog, [line |-> pos, secret |-> data.secret,
                                 digits |-> data.digits])
    /\ \E c \in Codes : code' = c
    /\ pc' = "copy_xclip"
    /\ UNCHANGED <<inputVars, clipVars, pos, data, parseLog, stdout, result, err>>

\* pyotp.TOTP(secret, digits=digits).now() raises (it is the library's choice)
GenerateRaises ==
    /\ pc = "generate"
    /\ genLog' = Append(genLog, [line |-> pos, secret |-> data.secret,
                                 digits |-> data.digits])
    /\ err' = "GeneratorError"
    /\ pc' = "error"
    /\ UNCHANGED <<inputVars, clipVars, pos, data, parseLog, code, stdout, result>>

----------------------------------------------------------------------------
(* copy_to_clipboard(str(code)): the chain of backends. Whether a backend  *)
(* is installed and how it ends are the environment's choice.              *)

SubprocessOutcomes == {"ok", "nonzero", "raise"}

\* try: Popen(...); communicate(...); return p.returncode == 0
\* except Exception: pass
RunSubprocess(backend, out, next) ==
    /\ tried' = Append(tried, [backend |-> backend, outcome |-> out])
    /\ IF out = "raise"
       THEN /\ pc' = next
            /\ UNCHANGED <<copied, clipboard>>
       ELSE /\ copied' = (out = "ok")
            /\ clipboard' = IF out = "ok" THEN code ELSE clipboard
            /\ pc' = "report"

\* if <available>: <run the backend>, else fall to the next backend
TrySubprocess(backend, here, next) ==
    /\ pc = here
    /\ probed' = Append(probed, backend)
    /\ \E available \in BOOLEAN, out \in SubprocessOutcomes :
          IF available
          THEN RunSubprocess(backend, out, next)
          ELSE /\ pc' = next
               /\ UNCHANGED <<tried, copied, clipboard>>
    /\ UNCHANGED <<inputVars, pos, data, parseLog, genLog, code, stdout, result, err>>

\* Linux: if shutil_which("xclip")
TryXclip == TrySubprocess("xclip", "copy_xclip", "copy_pbcopy")

\* macOS: if shutil_which("pbcopy")
TryPbcopy == TrySubprocess("pbcopy", "copy_pbcopy", "copy_clip")

\* Windows: if os.name == "nt" and shutil_which("clip")
TryClip == TrySubprocess("clip", "copy_clip", "copy_pyperclip")

\* if PYPERCLIP_AVAILABLE: try: pyperclip.copy(text); return True
\* except Exception: pass;  then  return False
TryPyperclip ==
    /\ pc = "copy_pyperclip"
    /\ probed' = Append(probed, "pyperclip")
    /\ \E available \in BOOLEAN, out \in {"ok", "raise"} :
          /\ tried' = IF available
                      THEN Append(tried, [backend |-> "pyperclip", outcome |-> out])
                      ELSE tried
          /\ copied' = (available /\ out = "ok")
          /\ clipboard' = IF available /\ out = "ok" THEN code ELSE clipboard
    /\ pc' = "report"
    /\ UNCHANGED <<inputVars, pos, data, parseLog, genLog, code, stdout, result, err>>

\* Report without its return: the for loop goes on to the next line
ReportWithoutReturn ==
    /\ pc = "report"
    /\ stdout' = stdout \o <<print_colored_box(copied)>>
                        \o (IF copied THEN <<>> ELSE <<[kind |-> "text", text |-> code]>>)
    /\ pc' = "loop"
    /\ UNCHANGED <<inputVars, clipVars, pos, data, parseLog, genLog, code, err, result>>

\* print_colored_box(copied); if not copied: print(str(code)); return True
Report ==
    /\ pc = "report"
    /\ stdout' = stdout \o <<print_colored_box(copied)>>
                        \o (IF copied THEN <<>> ELSE <<[kind |-> "text", text |-> code]>>)
    /\ result' = "True"
    /\ pc' = "done"
    /\ UNCHANGED <<inputVars, clipVars, pos, data, parseLog, genLog, code, err>>

Next ==
    \/ Iterate
    \/ NotFound
    \/ GenerateCode
    \/ GenerateRaises
    \/ TryXclip
    \/ TryPbcopy
    \/ TryClip
    \/ TryPyperclip
    \/ Report

\* search_and_generate_oauth on a file of several lines
Spec == Init /\ [][Next]_vars

\* the first turn of the loop on a file of one line: parse_first_match applied
\* to each line of the larger set, and the loop's end when it gave None
NextParse ==
    \/ Iterate
    \/ NotFound

ParseSpec == InitParse /\ [][NextParse]_vars

----------------------------------------------------------------------------
(* Vocabulary of the properties.                                           *)

\* line i passes all filters: pattern, label, secret
Candidate(i) == facts[i].hit /\ facts[i].secret # <<>>

\* line i matches pattern and label but carries no secret
SecretLess(i) == facts[i].hit /\ facts[i].secret = <<>>

\* line i carries a digits value that is not an integer
BadDigits(i) == facts[i].bad

\* number of the earliest line that passes all filters, 0 if none does
FirstCandidate ==
    LET c == {i \in 1..Len(file) : Candidate(i)}
    IN  IF c = {} THEN 0 ELSE Min(c)

Terminated == pc \in {"done", "error"}

Printed(c) == \E k \in 1..Len(stdout) : stdout[k] = [kind |-> "text", text |-> c]

----------------------------------------------------------------------------
(* C1: first match wins. The generator is invoked at most once and only    *)
(* on the earliest line that passes all filters; no line after that line   *)
(* is ever handed to parse_first_match, and True is returned with the loop *)
(* standing at that line.                                                  *)

C1_FirstMatchWins ==
    /\ Len(genLog) <= 1
    /\ \A k \in 1..Len(genLog) :
          /\ FirstCandidate # 0
          /\ genLog[k].line = FirstCandidate
    /\ FirstCandidate # 0 => \A k \in 1..Len(parseLog) : parseLog[k] <= FirstCandidate
    /\ \A k \in 1..Len(parseLog) : parseLog[k] = k
    /\ result = "True" => /\ pos = FirstCandidate
                          /\ Len(genLog) = 1
                          /\ Len(parseLog) = FirstCandidate

\* a run that returned True on a file with a second line passing all filters
C1_Witness ==
    /\ pc = "done"
    /\ result = "True"
    /\ \E j \in 1..Len(file) : j > FirstCandidate /\ Candidate(j)

(* C2: when the first line that passes the label and secret filters has a  *)
(* digits value that is not an integer, the run ends in the ValueError: no *)
(* generator call, no code, no clipboard write, nothing returned, and no   *)
(* later line is parsed.                                                   *)

C2_MalformedDigitsIsFatal ==
    (FirstCandidate # 0 /\ BadDigits(FirstCandidate)) =>
        /\ genLog = <<>>
        /\ code = NoCode
        /\ clipboard = NoCode
        /\ probed = <<>>
        /\ result = "none"
        /\ \A k \in 1..Len(parseLog) : parseLog[k] <= FirstCandidate
        /\ Terminated => pc = "error" /\ err = "ValueError" /\ pos = FirstCandidate

\* the ValueError left the function although a later line passes all filters
C2_Witness ==
    /\ pc = "error"
    /\ err = "ValueError"
    /\ BadDigits(pos)
    /\ \E j \in 1..Len(file) : j > pos /\ Candidate(j) /\ ~BadDigits(j)

(* C3: a line that matches pattern and label but has no secret is skipped  *)
(* without an error and the scan goes on; when a later line is the first   *)
(* to pass all filters (with integer digits), the generator is called on   *)
(* that later line.                                                        *)

C3_SecretlessLineSkipped ==
    /\ (pos >= 1 /\ SecretLess(pos)) =>
          /\ data = None
          /\ err = ""
          /\ pc \in {"loop", "done"}
          /\ pc = "done" => pos = Len(file) /\ result = "False"
    /\ \A i \in 1..Len(file) :
          (/\ SecretLess(i)
           /\ i < FirstCandidate
           /\ ~BadDigits(FirstCandidate)
           /\ Terminated) =>
              /\ Len(genLog) = 1
              /\ genLog[1].line = FirstCandidate
              /\ genLog[1].secret = facts[FirstCandidate].secret

\* a code was generated from a line that follows a secretless matching line
C3_Witness ==
    /\ pc = "done"
    /\ result = "True"
    /\ code # NoCode
    /\ \E i \in 1..Len(file) : i < genLog[1].line /\ SecretLess(i)

(* C4: when no line passes all filters the run reads every line, raises    *)
(* nothing, returns False and never calls the generator or the clipboard;  *)
(* True is returned only when some line passed all filters.                *)

C4_NotFoundIsFalse ==
    /\ FirstCandidate = 0 =>
          /\ err = ""
          /\ pc # "error"
          /\ genLog = <<>>
          /\ code = NoCode
          /\ probed = <<>>
          /\ tried = <<>>
          /\ clipboard = NoCode
          /\ result # "True"
          /\ pc = "done" => /\ result = "False"
                            /\ parseLog = [k \in 1..Len(file) |-> k]
    /\ result = "True" => FirstCandidate # 0
    /\ result = "False" => FirstCandidate = 0

\* False was returned after reading a file of two or more lines
C4_Witness ==
    /\ pc = "done"
    /\ result = "False"
    /\ Len(file) >= 2
    /\ Len(parseLog) = Len(file)

C4_WitnessEmpty ==
    /\ pc = "done"
    /\ result = "False"
    /\ file = <<>>

----------------------------------------------------------------------------
(* Properties of parse_first_match, on the line of a one-line file.        *)

CaseOf(up, t) == IF up THEN Upper(t) ELSE Lower(t)

\* sh with the case of its marker, of its label and of its key names set
Recase(sh, upMarker, upLabel, upKeys) ==
    Sh(sh.pre,
       CaseOf(upMarker, sh.marker),
       CaseOf(upLabel, sh.label),
       [i \in 1..Len(sh.pairs) |->
           Pair(CaseOf(upKeys, sh.pairs[i].k), sh.pairs[i].eq, sh.pairs[i].v)],
       sh.post)

\* what a parse result says apart from the label
Outcome(r) == IF r.kind = "dict" THEN <<r.kind, r.secret, r.digits>> ELSE <<r.kind>>

(* C5: matching ignores case in the scheme marker, in the label against    *)
(* the search text and in the key names: the line with marker, label and   *)
(* key names put in upper or lower case, parsed with the search text in    *)
(* upper or lower case, gives the same kind of result, the same secret and *)
(* the same digits; the label and the secret returned are text of the line *)
(* as written.                                                             *)

C5_CaseInsensitive ==
    (pos = 1 /\ pc # "done") =>
        /\ \A upMarker, upLabel, upKeys, upNeedle \in BOOLEAN :
              Outcome(parse_first_match(
                          Render(Recase(shape[1], upMarker, upLabel, upKeys)),
                          CaseOf(upNeedle, search_text)))
                  = Outcome(data)
        /\ data.kind = "dict" =>
              /\ Contains(file[1], data.label \o <<"?">>)
              /\ Contains(file[1], <<"=">> \o data.secret)

\* a dict from an upper-case marker and key, the label and the search text
\* differing in case
C5_Witness ==
    /\ pos = 1
    /\ data.kind = "dict"
    /\ shape[1].marker = Upper(Marker)
    /\ shape[1].pairs[1].k = Upper(KeySecret)
    /\ search_text = Lower(search_text)
    /\ data.label # Lower(data.label)
    /\ data.secret # Lower(data.secret)
    /\ data.secret # Upper(data.secret)

\* the pattern can match at index i of line whatever white space the label holds
Usable(line, i) ==
    /\ MarkerAt(line, i)
    /\ LET q == FirstIdx(line, i + Len(Marker), {"?"})
       IN  /\ q > i + Len(Marker)
           /\ q < Len(line)
           /\ line[q + 1] \notin WhiteSpace

(* C6 as stated: the label of a returned dict is one or more characters,   *)
(* none of them '?' or white space.                                        *)

C6_LabelWithoutWhiteSpace ==
    data.kind = "dict" =>
        /\ Len(data.label) >= 1
        /\ \A k \in 1..Len(data.label) : data.label[k] \notin WhiteSpace \cup {"?"}

(* C6 as amended: the label of a returned dict is one or more characters,  *)
(* none of them '?'; it is all the text between the leftmost marker that   *)
(* is followed by a non-empty text, '?' and a non-space character, and     *)
(* that '?', white space included.                                         *)

C6_LabelRunsToQuestionMark ==
    (pos = 1 /\ data.kind = "dict") =>
        /\ Len(data.label) >= 1
        /\ \A k \in 1..Len(data.label) : data.label[k] # "?"
        /\ \E i \in 1..Len(file[1]) :
              /\ Usable(file[1], i)
              /\ \A i2 \in 1..(i - 1) : ~Usable(file[1], i2)
              /\ data.label = SubSeq(file[1], i + Len(Marker),
                                     i + Len(Marker) + Len(data.label) - 1)
              /\ file[1][i + Len(Marker) + Len(data.label)] = "?"

\* a dict whose label holds white space
C6_Witness ==
    /\ pos = 1
    /\ data.kind = "dict"
    /\ \E k \in 1..Len(data.label) : data.label[k] \in WhiteSpace

(* C7: every dict has a non-empty secret and digits in 1..10, and the      *)
(* generator is never called with digits outside 1..10.                    *)

C7_DigitsInRange ==
    /\ data.kind = "dict" =>
          /\ data.secret # <<>>
          /\ data.digits \in 1..10
    /\ \A k \in 1..Len(genLog) : genLog[k].digits \in 1..10

\* the last pair of pairs that has an '=' and whose key is key in any case
Expected(pairs, key) ==
    LET I == {i \in 1..Len(pairs) : pairs[i].eq /\ Lower(pairs[i].k) = key}
    IN  IF I = {}
        THEN [present |-> FALSE, v |-> <<>>]
        ELSE [present |-> TRUE, v |-> pairs[CHOOSE i \in I : \A j \in I : j <= i].v]

\* the integers the digits values of the enumerated pairs denote
KnownInts == {<<"8">>, <<"0">>, <<"-","1">>, <<"1","1">>}
KnownInt(v) ==
    CASE v = <<"8">> -> 8
      [] v = <<"0">> -> 0
      [] v = <<"-","1">> -> 0 - 1
      [] v = <<"1","1">> -> 11

IsRecognized(p) == p.eq /\ Lower(p.k) \in {KeySecret, KeyDigits}

\* sh without the pairs that have no '=' or an unrecognized key
StripUnknown(sh) ==
    Sh(sh.pre, sh.marker, sh.label, SelectSeq(sh.pairs, IsRecognized), sh.post)

(* C9: the query string is split on '&', pairs without '=' are ignored,    *)
(* each pair is split at its first '=', keys are case-folded and the last  *)
(* occurrence of a key wins: the secret and digits of a dict are those of  *)
(* the last secret= and digits= pairs (6 without a digits pair), a         *)
(* ValueError comes from the last digits= pair, None for a matching label  *)
(* from a missing or empty last secret, and dropping the pairs without '=' *)
(* or with other keys changes nothing.                                     *)

C9_QueryParsing ==
    (pos = 1 /\ pc # "done") =>
        LET sec == Expected(shape[1].pairs, KeySecret)
            dig == Expected(shape[1].pairs, KeyDigits)
        IN  /\ data.kind = "dict" =>
                  /\ sec.present
                  /\ data.secret = sec.v
                  /\ data.digits = IF dig.present THEN KnownInt(dig.v) ELSE DefaultDigits
            /\ data.kind = "ValueError" =>
                  /\ sec.present /\ sec.v # <<>>
                  /\ dig.present /\ dig.v \notin KnownInts
            /\ (data.kind = "None" /\ facts[1].hit) =>
                  (~sec.present \/ sec.v = <<>>)
            /\ data.kind \in {"dict", "ValueError", "None"}
            /\ Outcome(parse_first_match(Render(StripUnknown(shape[1])), search_text))
                   = Outcome(data)

\* a dict from a line with two secret= pairs of different values, one of
\* them holding a further '='
C9_Witness ==
    /\ pos = 1
    /\ data.kind = "dict"
    /\ \E i, j \in 1..Len(shape[1].pairs) :
          /\ i < j
          /\ IsRecognized(shape[1].pairs[i]) /\ IsRecognized(shape[1].pairs[j])
          /\ Lower(shape[1].pairs[i].k) = KeySecret
          /\ Lower(shape[1].pairs[j].k) = KeySecret
          /\ "=" \in {shape[1].pairs[j].v[k] : k \in 1..Len(shape[1].pairs[j].v)}
          /\ shape[1].pairs[i].v # shape[1].pairs[j].v
          /\ data.secret = shape[1].pairs[j].v

InSeq(seq, x) == \E k \in 1..Len(seq) : seq[k] = x

NextBackend(b) ==
    CASE b = "xclip" -> "pbcopy"
      [] b = "pbcopy" -> "clip"
      [] b = "clip" -> "pyperclip"

(* C10: the clipboard write is a fallback chain: a backend that was run    *)
(* and did not succeed (it raised, or exited with a non-zero code) is      *)
(* followed by the test of the next backend; copy_to_clipboard returns     *)
(* True exactly when a backend that was run succeeded; the code is printed *)
(* exactly when it returned False.                                         *)

C10_FallbackChain ==
    (pc \in {"report", "done"} /\ code # NoCode) =>
        /\ \A k \in 1..Len(tried) :
              (tried[k].outcome # "ok" /\ tried[k].backend # "pyperclip") =>
                  InSeq(probed, NextBackend(tried[k].backend))
        /\ copied <=> \E k \in 1..Len(tried) : tried[k].outcome = "ok"
        /\ pc = "done" => (Printed(code) <=> ~copied)

====
